---- MODULE Spec2Model ----
(***************************************************************************)
(* A state-machine model of IrGenerator (src/src/ir_generator.rs): the     *)
(* lowering of a parsed AST to a linear register-based instruction list.   *)
(* The recursion of generate_node is an explicit call stack; every step    *)
(* between two calls or returns is one action.                             *)
(***************************************************************************)
EXTENDS Integers, Sequences, FiniteSets, TLC

\* ------------------------------------------------------------------ bounds

\* Largest number of AST nodes of the exhaustively enumerated programs.
MaxNodes == 4
\* Largest number of members of a block in the enumerated programs.
MaxBlockLen == 2
\* Largest length of the enumerated literal source texts.
MaxTextLen == 2

\* ------------------------------------------------------- Option and Result

\* Option<T>: None is the empty tuple, Some(x) the one-element tuple.
None == <<>>
Some(x) == <<x>>
IsSome(o) == o # <<>>
Unwrap(o) == o[1]

\* Result<T, E>
Ok(v) == [ok |-> TRUE, val |-> v]
Err(e) == [ok |-> FALSE, err |-> e]

\* --------------------------------------------------- std::str::from_utf8

\* A continuation byte 10xxxxxx.
IsCont(b, i) == i <= Len(b) /\ b[i] >= 128 /\ b[i] <= 191

InRange(b, i, lo, hi) == i <= Len(b) /\ b[i] >= lo /\ b[i] <= hi

\* The width of the well-formed UTF-8 scalar starting at b[i], or 0 when the
\* bytes there are ill-formed or cut short (the ranges of core::str's validation).
Utf8CharWidth(b, i) ==
    LET x == b[i] IN
    IF x < 128 THEN 1
    ELSE IF x >= 194 /\ x <= 223 THEN (IF IsCont(b, i + 1) THEN 2 ELSE 0)
    ELSE IF x = 224 THEN (IF InRange(b, i + 1, 160, 191) /\ IsCont(b, i + 2) THEN 3 ELSE 0)
    ELSE IF (x >= 225 /\ x <= 236) \/ x = 238 \/ x = 239
         THEN (IF IsCont(b, i + 1) /\ IsCont(b, i + 2) THEN 3 ELSE 0)
    ELSE IF x = 237 THEN (IF InRange(b, i + 1, 128, 159) /\ IsCont(b, i + 2) THEN 3 ELSE 0)
    ELSE IF x = 240
         THEN (IF InRange(b, i + 1, 144, 191) /\ IsCont(b, i + 2) /\ IsCont(b, i + 3) THEN 4 ELSE 0)
    ELSE IF x >= 241 /\ x <= 243
         THEN (IF IsCont(b, i + 1) /\ IsCont(b, i + 2) /\ IsCont(b, i + 3) THEN 4 ELSE 0)
    ELSE IF x = 244
         THEN (IF InRange(b, i + 1, 128, 143) /\ IsCont(b, i + 2) /\ IsCont(b, i + 3) THEN 4 ELSE 0)
    ELSE 0

RECURSIVE Utf8ValidFrom(_, _)
Utf8ValidFrom(b, i) ==
    IF i > Len(b) THEN TRUE
    ELSE LET w == Utf8CharWidth(b, i) IN
         IF w = 0 THEN FALSE ELSE Utf8ValidFrom(b, i + w)

from_utf8(b) == IF Utf8ValidFrom(b, 1) THEN Ok(b) ELSE Err("Utf8Error")

\* ------------------------------------------------------ str::parse::<i64>

\* An i64 is held as a sign and a magnitude of three limbs in base 10^8
\* (most significant first), since 2^63 exceeds the checker's integers.
LimbBase == 100000000
I64Zero == <<0, 0, 0>>
\* i64::MAX = 9223372036854775807 and |i64::MIN| = 9223372036854775808
I64MaxMag == <<922, 33720368, 54775807>>
I64MinMag == <<922, 33720368, 54775808>>

MagLeq(a, b) ==
    \/ a[1] < b[1]
    \/ a[1] = b[1] /\ a[2] < b[2]
    \/ a[1] = b[1] /\ a[2] = b[2] /\ a[3] <= b[3]

\* result * 10 + digit on magnitudes; the top limb absorbs the carry.
MulAddDigit(m, d) ==
    LET t0 == m[3] * 10 + d
        t1 == m[2] * 10 + (t0 \div LimbBase)
        t2 == m[1] * 10 + (t1 \div LimbBase)
    IN  <<t2, t1 % LimbBase, t0 % LimbBase>>

IsDigit(c) == c >= 48 /\ c <= 57

\* Mutant of ParseDigits: the multiply-and-add is unchecked, so a number out
\* of range is accepted.
RECURSIVE ParseDigitsUnchecked(_, _, _, _)
ParseDigitsUnchecked(s, i, neg, m) ==
    IF i > Len(s) THEN Ok([neg |-> neg /\ m # I64Zero, mag |-> m])
    ELSE IF ~IsDigit(s[i]) THEN Err("invalid digit found in string")
    ELSE ParseDigitsUnchecked(s, i + 1, neg, MulAddDigit(m, s[i] - 48))

\* The digit loop of from_str_radix: each byte must be a digit, then the
\* checked multiply-and-add must stay within the range of the sign.
RECURSIVE ParseDigits(_, _, _, _)
ParseDigits(s, i, neg, m) ==
    IF i > Len(s) THEN Ok([neg |-> neg /\ m # I64Zero, mag |-> m])
    ELSE IF ~IsDigit(s[i]) THEN Err("invalid digit found in string")
    ELSE LET n == MulAddDigit(m, s[i] - 48) IN
         IF ~MagLeq(n, IF neg THEN I64MinMag ELSE I64MaxMag)
         THEN Err(IF neg THEN "number too small to fit in target type"
                         ELSE "number too large to fit in target type")
         ELSE ParseDigits(s, i + 1, neg, n)

parse_i64(s) ==
    IF s = <<>> THEN Err("cannot parse integer from empty string")
    ELSE IF s[1] \in {43, 45} /\ Len(s) = 1 THEN Err("invalid digit found in string")
    ELSE IF s[1] = 43 THEN ParseDigits(s, 2, FALSE, I64Zero)
    ELSE IF s[1] = 45 THEN ParseDigits(s, 2, TRUE, I64Zero)
    ELSE ParseDigits(s, 1, FALSE, I64Zero)

\* ------------------------------------------------- the parse result (input)

\* Source texts of the integer literals of the enumerated programs:
\* "42", "-7", "abc", the lone byte 0xFF, and "9223372036854775808".
Texts ==
    { <<52, 50>>, <<45, 55>>, <<97, 98, 99>>, <<255>>,
      <<57, 50, 50, 51, 51, 55, 50, 48, 51, 54, 56, 53, 52, 55, 55, 53, 56, 48, 56>> }

\* A node as the parser lays it out before block members are moved to the
\* block table: its kind, its source text, and the ids of its children.
RawNode(kind, text, refs) == [kind |-> kind, text |-> text, refs |-> refs]

\* One-node programs: an integer literal, an operator leaf, a kind the
\* generator does not lower, and a block without members.
Leaves ==
    { RawNode("Int", t, <<>>) : t \in Texts }
    \cup { RawNode(k, <<>>, <<>>) : k \in {"Plus", "Multiply", "String", "Block"} }

\* The table with every child id moved up by k.
Shift(tbl, k) ==
    [i \in 1..Len(tbl) |->
        [tbl[i] EXCEPT !.refs = [j \in 1..Len(@) |-> @[j] + k]]]

\* The tables ts[1], ..., ts[Len(ts)] laid out one after another, with the
\* ids of their roots (the last node of each).
RECURSIVE Join(_)
Join(ts) ==
    IF ts = <<>> THEN [tbl |-> <<>>, roots |-> <<>>]
    ELSE LET f == Join(SubSeq(ts, 1, Len(ts) - 1))
             t == ts[Len(ts)]
         IN  [tbl |-> f.tbl \o Shift(t, Len(f.tbl)),
              roots |-> Append(f.roots, Len(f.tbl) + Len(t) - 1)]

\* The table of a binary operation over the tables of its three children,
\* and of a block over the tables of its members.
Bin(a, o, b) == LET f == Join(<<a, o, b>>) IN Append(f.tbl, RawNode("BinaryOp", <<>>, f.roots))
Blk(ts) == LET f == Join(ts) IN Append(f.tbl, RawNode("Block", <<>>, f.roots))

\* Trees(n): the tables of exactly n nodes, children before parents, root last.
\* Forests(n, k): the sequences of k such trees with n nodes in all.
RECURSIVE Trees(_), Forests(_, _)
Trees(n) ==
    IF n = 1 THEN { <<l>> : l \in Leaves }
    ELSE { Bin(f[1], f[2], f[3]) : f \in Forests(n - 1, 3) }
         \cup UNION { { Blk(f) : f \in Forests(n - 1, k) } : k \in 1..MaxBlockLen }

Forests(n, k) ==
    IF k = 0 THEN (IF n = 0 THEN { <<>> } ELSE {})
    ELSE IF n < k THEN {}
    ELSE UNION { { Append(f, t) : f \in Forests(n - s, k - 1), t \in Trees(s) }
                 : s \in 1..(n - k + 1) }

\* Deeper programs than the enumeration reaches: nested binary operations
\* and blocks of binary operations, with and without a failing node.
Lit(t) == << RawNode("Int", t, <<>>) >>
Leaf(k) == << RawNode(k, <<>>, <<>>) >>
Lit42 == Lit(<<52, 50>>)
LitNeg7 == Lit(<<45, 55>>)
LitAbc == Lit(<<97, 98, 99>>)
Samples ==
    { Bin(Bin(Lit42, Leaf("Plus"), LitNeg7), Leaf("Multiply"), Lit42),
      Bin(Lit42, Leaf("Plus"), Bin(LitNeg7, Leaf("Multiply"), Lit42)),
      Bin(Bin(Lit42, Leaf("Plus"), LitAbc), Leaf("Multiply"), Lit42),
      Bin(Lit42, Leaf("Plus"), Bin(LitNeg7, Leaf("String"), LitAbc)),
      Bin(Bin(Lit42, Leaf("Plus"), LitNeg7), Lit42, Bin(LitNeg7, Leaf("Multiply"), Lit42)),
      Bin(Bin(Lit42, Leaf("Plus"), LitNeg7), Leaf("Multiply"), Bin(LitNeg7, Leaf("Multiply"), Lit42)),
      Blk(<< Bin(Lit42, Leaf("Plus"), LitNeg7) >>),
      Blk(<< Bin(Lit42, Leaf("Multiply"), LitNeg7), Bin(LitNeg7, Leaf("Plus"), Lit42) >>),
      Blk(<< Bin(Lit42, Leaf("Plus"), LitNeg7), Leaf("String"), Lit42 >>),
      Blk(<< Lit42, LitAbc, Leaf("String"), LitNeg7 >>),
      Blk(<< Blk(<< Lit42, Blk(<<>>) >>), LitNeg7 >>),
      Bin(Blk(<< Lit42, LitNeg7 >>), Leaf("Plus"), Blk(<< Bin(Lit42, Leaf("Multiply"), Lit42) >>)),
      Bin(Lit42, Leaf("Plus"), Blk(<< LitNeg7, Blk(<<>>) >>)) }

\* The block table: the member lists of the Block nodes, in node order.
RECURSIVE BlocksOf(_, _)
BlocksOf(tbl, i) ==
    IF i > Len(tbl) THEN <<>>
    ELSE IF tbl[i].kind = "Block" THEN <<[nodes |-> tbl[i].refs]>> \o BlocksOf(tbl, i + 1)
    ELSE BlocksOf(tbl, i + 1)

\* The Compiler after parsing: ast_nodes and blocks (indexed from NodeId 0 and
\* BlockId 0, held at positions id + 1) and the source bytes each node spans.
Compile(tbl) ==
    [ ast_nodes |->
        [i \in 1..Len(tbl) |->
            IF tbl[i].kind = "Block"
            THEN [kind |-> "Block",
                  block_id |-> Cardinality({j \in 1..(i - 1) : tbl[j].kind = "Block"})]
            ELSE IF tbl[i].kind = "BinaryOp"
            THEN [kind |-> "BinaryOp", lhs |-> tbl[i].refs[1],
                  op |-> tbl[i].refs[2], rhs |-> tbl[i].refs[3]]
            ELSE [kind |-> tbl[i].kind]],
      blocks |-> BlocksOf(tbl, 1),
      contents |-> [i \in 1..Len(tbl) |-> tbl[i].text] ]

\* Bytes of the literal texts enumerated in full: + - 0 9 a, the two bytes of
\* U+00E9 (0xC3 0xA9), and 0xFF.
LitBytes == {43, 45, 48, 57, 97, 195, 169, 255}

RECURSIVE SeqsUpTo(_, _)
SeqsUpTo(S, n) ==
    IF n = 0 THEN { <<>> }
    ELSE LET shorter == SeqsUpTo(S, n - 1) IN
         shorter \cup { Append(q, x) : q \in { r \in shorter : Len(r) = n - 1 }, x \in S }

\* Literal texts at the edges of the i64 range: i64::MAX, i64::MAX + 1,
\* i64::MIN, i64::MIN - 1, and 1 written with leading zeros.
EdgeTexts ==
    { <<57, 50, 50, 51, 51, 55, 50, 48, 51, 54, 56, 53, 52, 55, 55, 53, 56, 48, 55>>,
      <<57, 50, 50, 51, 51, 55, 50, 48, 51, 54, 56, 53, 52, 55, 55, 53, 56, 48, 56>>,
      <<45, 57, 50, 50, 51, 51, 55, 50, 48, 51, 54, 56, 53, 52, 55, 55, 53, 56, 48, 56>>,
      <<45, 57, 50, 50, 51, 51, 55, 50, 48, 51, 54, 56, 53, 52, 55, 55, 53, 56, 48, 57>>,
      <<48, 48, 48, 48, 48, 48, 48, 48, 48, 48, 48, 48, 48, 48, 48, 48, 48, 48, 48, 48, 49>> }

LitTexts == SeqsUpTo(LitBytes, MaxTextLen) \cup EdgeTexts

\* The programs a pass is run on: the empty AST, every tree of at most
\* MaxNodes nodes, the deeper samples, and every one-literal program over
\* LitTexts.
Programs ==
    { <<>> }
    \cup UNION { Trees(n) : n \in 1..MaxNodes }
    \cup Samples
    \cup { Lit(t) : t \in LitTexts }

\* -------------------------------------------------------------- the state

VARIABLES
    compiler,        \* the immutable parse result the generator is bound to
    errors,          \* IrGenerator.errors
    instructions,    \* IrGenerator.instructions
    register_count,  \* IrGenerator.register_count
    file_count,      \* IrGenerator.file_count
    pc,              \* position in generate(): "ready", "lowering", "done"
    stack,           \* the generate_node calls in progress, innermost last
    ret,             \* the value the last finished generate_node call returned
    lowered,         \* the node ids generate_node was called on, in call order
    pass,            \* which generator over this compiler is running: 1 or 2
    first            \* what the first generator's block() and errors() gave

vars == <<compiler, errors, instructions, register_count, file_count,
          pc, stack, ret, lowered, pass, first>>

\* Accessors of the parse result (NodeId and BlockId count from 0).
AstLen == Len(compiler.ast_nodes)
get_node(node_id) == compiler.ast_nodes[node_id + 1]
get_block(block_id) == compiler.blocks[block_id + 1]
get_span_contents(node_id) == compiler.contents[node_id + 1]

\* IrGenerator::new
New ==
    /\ errors = <<>>
    /\ instructions = <<>>
    /\ register_count = 0
    /\ file_count = 0

Init ==
    /\ \E p \in Programs : compiler = Compile(p)
    /\ New
    /\ pc = "ready"
    /\ stack = <<>>
    /\ ret = None
    /\ lowered = <<>>
    /\ pass = 1
    /\ first = None

\* ------------------------------------------------------ the private helpers

\* Mutant of next_register: the counter is not advanced.
next_register_stuck(count) == [r |-> count, register_count |-> count]

\* next_register: the register handed out and the counter after it. The
\* counter is a u32; a program of the sizes enumerated here keeps it far
\* below 2^32.
next_register(count) == [r |-> count, register_count |-> count + 1]

\* error: the diagnostic list with one more Error entry.
error(errs, message, node_id) ==
    Append(errs, [message |-> message, node_id |-> node_id, severity |-> "Error"])

\* span_to_string: the text of the node, or None and one diagnostic.
span_to_string(errs, node_id) ==
    LET res == from_utf8(get_span_contents(node_id)) IN
    IF res.ok THEN [val |-> Some(res.val), errors |-> errs]
    ELSE [val |-> None,
          errors |-> error(errs, <<"failed to convert a node to string", res.err>>, node_id)]

\* span_to_i64: the integer the node's text denotes, or None and one diagnostic.
span_to_i64(errs, node_id) ==
    LET str == span_to_string(errs, node_id) IN
    IF ~IsSome(str.val) THEN [val |-> None, errors |-> str.errors]
    ELSE LET res == parse_i64(Unwrap(str.val)) IN
         IF res.ok THEN [val |-> Some(res.val), errors |-> str.errors]
         ELSE [val |-> None,
               errors |-> error(str.errors,
                                <<"failed to convert a node to string", res.err>>, node_id)]

\* Mutant of node_to_operator: the two operators are exchanged.
node_to_operator_swapped(errs, node_id) ==
    LET node == get_node(node_id) IN
    IF node.kind = "Plus" THEN [val |-> Some("Math::Multiply"), errors |-> errs]
    ELSE IF node.kind = "Multiply" THEN [val |-> Some("Math::Plus"), errors |-> errs]
    ELSE [val |-> None,
          errors |-> error(errs, <<"unrecognized operator", node.kind>>, node_id)]

\* node_to_operator: the operator an operator leaf denotes, or None and one
\* diagnostic.
node_to_operator(errs, node_id) ==
    LET node == get_node(node_id) IN
    IF node.kind = "Plus" THEN [val |-> Some("Math::Plus"), errors |-> errs]
    ELSE IF node.kind = "Multiply" THEN [val |-> Some("Math::Multiply"), errors |-> errs]
    ELSE [val |-> None,
          errors |-> error(errs, <<"unrecognized operator", node.kind>>, node_id)]

\* The instructions.
LoadLiteral(dst, val) == [op |-> "LoadLiteral", dst |-> dst, lit |-> [tag |-> "Int", val |-> val]]
BinaryOp(lhs_dst, o, rhs) == [op |-> "BinaryOp", lhs_dst |-> lhs_dst, operator |-> o, rhs |-> rhs]
Return(src) == [op |-> "Return", src |-> src]

\* ------------------------------------------------------------ the call stack

\* A generate_node call in progress: its argument, where it stands, and its
\* locals (the block loop's position and `last`, the binary operation's `l`).
Frame(node_id) == [node_id |-> node_id, at |-> "entry", idx |-> 0, last |-> None, l |-> None]

Top == stack[Len(stack)]
TopNode == get_node(Top.node_id)
Pop(stk) == SubSeq(stk, 1, Len(stk) - 1)

\* The running call moves to `at` with its locals updated and calls
\* generate_node(node_id).
Call(frame, node_id) ==
    /\ stack' = Append(Append(Pop(stack), frame), Frame(node_id))
    /\ lowered' = Append(lowered, node_id)
    /\ UNCHANGED ret

\* The running call returns v to its caller.
ReturnValue(v) ==
    /\ stack' = Pop(stack)
    /\ ret' = v
    /\ UNCHANGED lowered

Entered(kind) ==
    /\ pc = "lowering"
    /\ stack # <<>>
    /\ Top.at = "entry"
    /\ TopNode.kind = kind

Resumed(at) ==
    /\ pc = "lowering"
    /\ stack # <<>>
    /\ Top.at = at

\* ---------------------------------------------------------------- generate

\* Mutant of Generate: the pass starts at the first node instead of the last.
GenerateFirstNode ==
    /\ pc = "ready"
    /\ IF AstLen = 0
       THEN /\ pc' = "done"
            /\ UNCHANGED <<stack, lowered>>
       ELSE /\ pc' = "lowering"
            /\ stack' = <<Frame(0)>>
            /\ lowered' = Append(lowered, 0)
    /\ UNCHANGED <<compiler, errors, instructions, register_count, file_count,
                   ret, pass, first>>

\* generate(), up to the call of generate_node on the last node.
Generate ==
    /\ pc = "ready"
    /\ IF AstLen = 0
       THEN /\ pc' = "done"
            /\ UNCHANGED <<stack, lowered>>
       ELSE /\ pc' = "lowering"
            /\ stack' = <<Frame(AstLen - 1)>>
            /\ lowered' = Append(lowered, AstLen - 1)
    /\ UNCHANGED <<compiler, errors, instructions, register_count, file_count,
                   ret, pass, first>>

\* generate(), after generate_node returned: the let-else and the final push.
GenerateReturn ==
    /\ pc = "lowering"
    /\ stack = <<>>
    /\ instructions' = IF IsSome(ret) THEN Append(instructions, Return(Unwrap(ret)))
                       ELSE instructions
    /\ pc' = "done"
    /\ UNCHANGED <<compiler, errors, register_count, file_count, stack, ret,
                   lowered, pass, first>>

\* ----------------------------------------------------------- generate_node

\* Mutant of LowerInt: the `?` on span_to_i64 is lost, so a literal that does
\* not parse still yields its register.
LowerIntKeepsRegister ==
    /\ Entered("Int")
    /\ LET next_reg == next_register(register_count)
           val == span_to_i64(errors, Top.node_id)
       IN  /\ register_count' = next_reg.register_count
           /\ errors' = val.errors
           /\ instructions' = IF IsSome(val.val)
                              THEN Append(instructions, LoadLiteral(next_reg.r, Unwrap(val.val)))
                              ELSE instructions
           /\ ReturnValue(Some(next_reg.r))
    /\ UNCHANGED <<compiler, file_count, pc, pass, first>>

\* AstNode::Int
LowerInt ==
    /\ Entered("Int")
    /\ LET next_reg == next_register(register_count)
           val == span_to_i64(errors, Top.node_id)
       IN  /\ register_count' = next_reg.register_count
           /\ errors' = val.errors
           /\ IF IsSome(val.val)
              THEN /\ instructions' = Append(instructions, LoadLiteral(next_reg.r, Unwrap(val.val)))
                   /\ ReturnValue(Some(next_reg.r))
              ELSE /\ instructions' = instructions
                   /\ ReturnValue(None)
    /\ UNCHANGED <<compiler, file_count, pc, pass, first>>

\* The members of the block the running call lowers.
BlockNodes == get_block(TopNode.block_id).nodes

\* Mutant of LowerBlock: the members are visited from an arbitrary one, as an
\* unordered collection would give them.
LowerBlockAnyOrder ==
    /\ Entered("Block")
    /\ IF Len(BlockNodes) = 0
       THEN ReturnValue(None)
       ELSE \E k \in 1..Len(BlockNodes) :
               Call([Top EXCEPT !.at = "member", !.idx = 0, !.last = None], BlockNodes[k])
    /\ UNCHANGED <<compiler, errors, instructions, register_count, file_count,
                   pc, pass, first>>

\* AstNode::Block, up to the first call of the loop (or past an empty loop).
LowerBlock ==
    /\ Entered("Block")
    /\ IF Len(BlockNodes) = 0
       THEN ReturnValue(None)
       ELSE Call([Top EXCEPT !.at = "member", !.idx = 0, !.last = None], BlockNodes[1])
    /\ UNCHANGED <<compiler, errors, instructions, register_count, file_count,
                   pc, pass, first>>

\* Mutant of BlockMemberReturned: the `last?;` is lost, so the loop goes on
\* to the next member after a member failed.
BlockMemberReturnedContinues ==
    /\ Resumed("member")
    /\ IF Top.idx + 1 < Len(BlockNodes)
       THEN Call([Top EXCEPT !.idx = @ + 1, !.last = ret], BlockNodes[Top.idx + 2])
       ELSE ReturnValue(ret)
    /\ UNCHANGED <<compiler, errors, instructions, register_count, file_count,
                   pc, pass, first>>

\* AstNode::Block, from the return of a member: `last = ...; last?;`, then the
\* next member or the end of the loop.
BlockMemberReturned ==
    /\ Resumed("member")
    /\ IF ~IsSome(ret)
       THEN ReturnValue(None)
       ELSE IF Top.idx + 1 < Len(BlockNodes)
       THEN Call([Top EXCEPT !.idx = @ + 1, !.last = ret], BlockNodes[Top.idx + 2])
       ELSE ReturnValue(ret)
    /\ UNCHANGED <<compiler, errors, instructions, register_count, file_count,
                   pc, pass, first>>

\* Mutant of LowerBinaryOp: the first operand lowered is rhs.
LowerBinaryOpRhsFirst ==
    /\ Entered("BinaryOp")
    /\ Call([Top EXCEPT !.at = "lhs"], TopNode.rhs)
    /\ UNCHANGED <<compiler, errors, instructions, register_count, file_count,
                   pc, pass, first>>

\* AstNode::BinaryOp, up to the call on lhs.
LowerBinaryOp ==
    /\ Entered("BinaryOp")
    /\ Call([Top EXCEPT !.at = "lhs"], TopNode.lhs)
    /\ UNCHANGED <<compiler, errors, instructions, register_count, file_count,
                   pc, pass, first>>

\* AstNode::BinaryOp, from the return of lhs to the call on rhs.
BinaryOpLhsReturned ==
    /\ Resumed("lhs")
    /\ IF ~IsSome(ret)
       THEN ReturnValue(None)
       ELSE Call([Top EXCEPT !.at = "rhs", !.l = ret], TopNode.rhs)
    /\ UNCHANGED <<compiler, errors, instructions, register_count, file_count,
                   pc, pass, first>>

\* AstNode::BinaryOp, from the return of rhs: node_to_operator and the push.
BinaryOpRhsReturned ==
    /\ Resumed("rhs")
    /\ IF ~IsSome(ret)
       THEN /\ ReturnValue(None)
            /\ UNCHANGED <<errors, instructions>>
       ELSE LET o == node_to_operator(errors, TopNode.op) IN
            /\ errors' = o.errors
            /\ IF IsSome(o.val)
               THEN /\ instructions' = Append(instructions,
                                              BinaryOp(Unwrap(Top.l), Unwrap(o.val), Unwrap(ret)))
                    /\ ReturnValue(Top.l)
               ELSE /\ instructions' = instructions
                    /\ ReturnValue(None)
    /\ UNCHANGED <<compiler, register_count, file_count, pc, pass, first>>

\* Mutant of LowerOther: the diagnostic names the top-level node instead of
\* the node that is not supported.
LowerOtherWrongNode ==
    /\ pc = "lowering"
    /\ stack # <<>>
    /\ Top.at = "entry"
    /\ TopNode.kind \notin {"Int", "Block", "BinaryOp"}
    /\ errors' = error(errors, <<"node not suported yet", TopNode.kind>>, AstLen - 1)
    /\ ReturnValue(None)
    /\ UNCHANGED <<compiler, instructions, register_count, file_count, pc, pass, first>>

\* The catch-all arm: any other node kind.
LowerOther ==
    /\ pc = "lowering"
    /\ stack # <<>>
    /\ Top.at = "entry"
    /\ TopNode.kind \notin {"Int", "Block", "BinaryOp"}
    /\ errors' = error(errors, <<"node not suported yet", TopNode.kind>>, Top.node_id)
    /\ ReturnValue(None)
    /\ UNCHANGED <<compiler, instructions, register_count, file_count, pc, pass, first>>

\* ------------------------------------------------------------- the results

\* block(): the IrBlock built from the generator's state.
block ==
    [ instructions |-> instructions,
      spans |-> [i \in 1..Len(instructions) |-> [start |-> 0, end |-> 0]],
      data |-> <<>>,
      ast |-> [i \in 1..Len(instructions) |-> None],
      comments |-> <<>>,
      register_count |-> register_count,
      file_count |-> file_count ]

\* The caller keeps the first generator's results and runs a second,
\* freshly constructed generator over the same compiler.
SecondPass ==
    /\ pc = "done"
    /\ pass = 1
    /\ first' = Some([block |-> block, errors |-> errors])
    /\ pass' = 2
    /\ errors' = <<>>
    /\ instructions' = <<>>
    /\ register_count' = 0
    /\ file_count' = 0
    /\ pc' = "ready"
    /\ stack' = <<>>
    /\ ret' = None
    /\ lowered' = <<>>
    /\ UNCHANGED compiler

Next ==
    \/ Generate
    \/ GenerateReturn
    \/ LowerInt
    \/ LowerBlock
    \/ BlockMemberReturned
    \/ LowerBinaryOp
    \/ BinaryOpLhsReturned
    \/ BinaryOpRhsReturned
    \/ LowerOther
    \/ SecondPass

Spec == Init /\ [][Next]_vars

\* ------------------------------------------- vocabulary of the properties

Last(q) == q[Len(q)]
Range(q) == { q[i] : i \in 1..Len(q) }
IsPrefix(p, q) == Len(p) <= Len(q) /\ SubSeq(q, 1, Len(p)) = p
SamePass == pass' = pass

KindOf(n) == get_node(n).kind
Unsupported(n) == KindOf(n) \notin {"Int", "Block", "BinaryOp"}

\* The nodes in expression position under node n: block members and the
\* operands of binary operations, not the operator leaves.
RECURSIVE ExprNodesUnder(_)
ExprNodesUnder(n) ==
    LET node == get_node(n)
        children == IF node.kind = "Block" THEN Range(get_block(node.block_id).nodes)
                    ELSE IF node.kind = "BinaryOp" THEN {node.lhs, node.rhs}
                    ELSE {}
    IN  {n} \cup UNION { ExprNodesUnder(c) : c \in children }

ExprNodes == IF AstLen = 0 THEN {} ELSE ExprNodesUnder(AstLen - 1)

\* The nodes whose generate_node call has started running (the innermost
\* call may still stand at its entry).
Started ==
    { lowered[i] : i \in 1..(Len(lowered) -
                             (IF stack # <<>> /\ Top.at = "entry" THEN 1 ELSE 0)) }

NoReturnIn(ins) == \A i \in 1..Len(ins) : ins[i].op # "Return"
DiagnosticsOf(n) == { i \in 1..Len(errors) : errors[i].node_id = n }

\* --------------------------------------------------------------------- C1

\* C1: on a non-empty AST generate() lowers the node at the highest index as
\* the top-level node; a return instruction is appended if and only if that
\* lowering yields a register, and then it is the last instruction, the only
\* return, and its source is the register the top-level lowering yielded.
C1_TopLevelReturn ==
    /\ lowered # <<>> => lowered[1] = AstLen - 1
    /\ stack # <<>> => stack[1].node_id = AstLen - 1
    /\ pc # "done" => NoReturnIn(instructions)
    /\ (pc = "done" /\ AstLen > 0) =>
          /\ lowered # <<>>
          /\ IF IsSome(ret)
             THEN /\ instructions # <<>>
                  /\ Last(instructions).op = "Return"
                  /\ Last(instructions).src = Unwrap(ret)
                  /\ NoReturnIn(SubSeq(instructions, 1, Len(instructions) - 1))
             ELSE NoReturnIn(instructions)

\* A finished pass over a block of two literals: the return names register 1.
C1_Witness ==
    /\ pc = "done"
    /\ AstLen = 3
    /\ ret = Some(1)
    /\ Len(instructions) = 3
    /\ instructions[3].op = "Return"
    /\ instructions[3].src = 1

\* --------------------------------------------------------------------- C2

Defines(ins) == ins.op \in {"LoadLiteral", "BinaryOp"}
DstOf(ins) == IF ins.op = "LoadLiteral" THEN ins.dst ELSE ins.lhs_dst
UsesOf(ins) ==
    IF ins.op = "BinaryOp" THEN {ins.lhs_dst, ins.rhs}
    ELSE IF ins.op = "Return" THEN {ins.src}
    ELSE {}

\* C2: at every point of a pass, every register an instruction uses is the
\* destination of a load-literal or binary-op instruction at a strictly
\* smaller index of the instruction list.
C2_UsesAreDefined ==
    \A i \in 1..Len(instructions) :
        \A r \in UsesOf(instructions[i]) :
            \E j \in 1..(i - 1) :
                Defines(instructions[j]) /\ DstOf(instructions[j]) = r

\* A finished nested binary operation: six instructions, two of them binary-ops.
C2_Witness ==
    /\ pc = "done"
    /\ Len(instructions) = 6
    /\ instructions[3].op = "BinaryOp"
    /\ instructions[5].op = "BinaryOp"
    /\ instructions[5].rhs = 2
    /\ instructions[6].op = "Return"

\* --------------------------------------------------------------------- C6

IntCallsStarted ==
    Cardinality({ i \in 1..(Len(lowered) -
                            (IF stack # <<>> /\ Top.at = "entry" THEN 1 ELSE 0)) :
                  KindOf(lowered[i]) = "Int" })

C6_State ==
    /\ register_count = IntCallsStarted
    /\ \A i \in 1..Len(instructions) :
          instructions[i].op = "LoadLiteral" =>
             /\ instructions[i].dst < register_count
             /\ \A j \in 1..(i - 1) :
                   instructions[j].op = "LoadLiteral" => instructions[j].dst < instructions[i].dst

C6_Step ==
    SamePass =>
       /\ register_count' \in {register_count, register_count + 1}
       /\ (Len(instructions') > Len(instructions) /\ Last(instructions').op = "LoadLiteral") =>
             /\ Last(instructions').dst = register_count
             /\ ret' = Some(register_count)
             /\ register_count' = register_count + 1
       /\ (stack # <<>> /\ Top.at = "entry" /\ TopNode.kind = "Int") =>
             register_count' = register_count + 1

\* C6: register ids allocated in one pass are unique and strictly increasing
\* in allocation order: the k-th allocation returns id k-1 (the counter equals
\* the number of allocations made and each allocation hands out the counter
\* and raises it by one), and the destinations of the load-literal
\* instructions strictly increase with the instruction index.
C6_RegistersIncrease == [] C6_State /\ [][C6_Step]_vars

\* Three allocations in one pass, the third loaded after a binary-op.
C6_Witness ==
    /\ register_count = 3
    /\ Len(instructions) = 4
    /\ instructions[1].op = "LoadLiteral" /\ instructions[1].dst = 0
    /\ instructions[2].op = "LoadLiteral" /\ instructions[2].dst = 1
    /\ instructions[3].op = "BinaryOp"
    /\ instructions[4].op = "LoadLiteral" /\ instructions[4].dst = 2

\* --------------------------------------------------------------------- C5

\* The decimal digits of i64::MAX and of the magnitude of i64::MIN.
MaxDigits == <<57, 50, 50, 51, 51, 55, 50, 48, 51, 54, 56, 53, 52, 55, 55, 53, 56, 48, 55>>
MinDigits == <<57, 50, 50, 51, 51, 55, 50, 48, 51, 54, 56, 53, 52, 55, 55, 53, 56, 48, 56>>

RECURSIVE StripZeros(_)
StripZeros(d) == IF Len(d) > 1 /\ d[1] = 48 THEN StripZeros(Tail(d)) ELSE d

\* a <= b for digit strings without leading zeros.
DecimalLeq(a, b) ==
    \/ Len(a) < Len(b)
    \/ /\ Len(a) = Len(b)
       /\ \/ a = b
          \/ \E i \in 1..Len(a) : a[i] < b[i] /\ \A j \in 1..(i - 1) : a[j] = b[j]

\* The text is an optional sign and one or more decimal digits denoting an
\* integer of [-2^63, 2^63 - 1].
IsI64Text(t) ==
    /\ t # <<>>
    /\ LET signed == t[1] \in {43, 45}
           digits == IF signed THEN Tail(t) ELSE t
       IN  /\ digits # <<>>
           /\ \A i \in 1..Len(digits) : IsDigit(digits[i])
           /\ DecimalLeq(StripZeros(digits), IF t[1] = 45 THEN MinDigits ELSE MaxDigits)

BadLiteral(n) ==
    \/ ~Utf8ValidFrom(get_span_contents(n), 1)
    \/ ~IsI64Text(get_span_contents(n))

C5_Step ==
    (stack # <<>> /\ Top.at = "entry" /\ TopNode.kind = "Int" /\ BadLiteral(Top.node_id)) =>
       /\ Len(errors') = Len(errors) + 1
       /\ IsPrefix(errors, errors')
       /\ Last(errors').severity = "Error"
       /\ Last(errors').node_id = Top.node_id
       /\ instructions' = instructions
       /\ stack' = Pop(stack)
       /\ ret' = None

\* C5: lowering an integer-literal node whose text is not valid UTF-8 or is
\* not a signed 64-bit integer records exactly one diagnostic, of Error
\* severity and with the literal's node id, emits no instruction and yields
\* no register.
C5_BadLiteral == [][C5_Step]_vars

\* The one-literal program "-9223372036854775809" after its lowering.
C5_Witness ==
    /\ AstLen = 1
    /\ Len(get_span_contents(0)) = 20
    /\ BadLiteral(0)
    /\ lowered = <<0>>
    /\ stack = <<>>
    /\ ret = None
    /\ Len(errors) = 1
    /\ errors[1].node_id = 0
    /\ instructions = <<>>

\* --------------------------------------------------------------------- C7

\* The top-level node is a binary operation whose operator leaf is Plus or
\* Multiply and whose operands are integer literals with i64 texts.
IsBinaryOfLiterals ==
    /\ AstLen > 0
    /\ KindOf(AstLen - 1) = "BinaryOp"
    /\ LET node == get_node(AstLen - 1) IN
       /\ KindOf(node.op) \in {"Plus", "Multiply"}
       /\ KindOf(node.lhs) = "Int" /\ ~BadLiteral(node.lhs)
       /\ KindOf(node.rhs) = "Int" /\ ~BadLiteral(node.rhs)

\* C7: for a binary addition or multiplication of two parseable integer
\* literals generate() yields load-literal into register 0 (the left value),
\* load-literal into register 1 (the right value), binary-op with lhs_dst 0,
\* the matching operator and rhs 1, then return of register 0, and records no
\* diagnostic.
C7_BinaryOfLiterals ==
    (pc = "done" /\ IsBinaryOfLiterals) =>
       LET node == get_node(AstLen - 1) IN
       /\ errors = <<>>
       /\ Len(instructions) = 4
       /\ instructions[1] = [op |-> "LoadLiteral", dst |-> 0,
                             lit |-> [tag |-> "Int",
                                      val |-> parse_i64(get_span_contents(node.lhs)).val]]
       /\ instructions[2] = [op |-> "LoadLiteral", dst |-> 1,
                             lit |-> [tag |-> "Int",
                                      val |-> parse_i64(get_span_contents(node.rhs)).val]]
       /\ instructions[3] = [op |-> "BinaryOp", lhs_dst |-> 0,
                             operator |-> IF KindOf(node.op) = "Plus" THEN "Math::Plus"
                                          ELSE "Math::Multiply",
                             rhs |-> 1]
       /\ instructions[4] = [op |-> "Return", src |-> 0]

\* The finished pass over 42 * -7.
C7_Witness ==
    /\ pc = "done"
    /\ IsBinaryOfLiterals
    /\ Len(instructions) = 4
    /\ instructions[1].lit.val = [neg |-> FALSE, mag |-> <<0, 0, 42>>]
    /\ instructions[2].lit.val = [neg |-> TRUE, mag |-> <<0, 0, 7>>]
    /\ instructions[3].operator = "Math::Multiply"

\* --------------------------------------------------------------------- C8

\* C8: two passes, each on a freshly constructed generator over the same
\* compiler, end with the same instructions, register count and diagnostics.
C8_Deterministic ==
    (pc = "done" /\ pass = 2) =>
       /\ IsSome(first)
       /\ Unwrap(first).block.instructions = instructions
       /\ Unwrap(first).block.register_count = register_count
       /\ Unwrap(first).block = block
       /\ Unwrap(first).errors = errors

\* The second pass over a block of two literals is finished.
C8_Witness ==
    /\ pc = "done"
    /\ pass = 2
    /\ IsSome(first)
    /\ AstLen = 3
    /\ KindOf(AstLen - 1) = "Block"
    /\ Len(instructions) = 3
    /\ Len(Unwrap(first).block.instructions) = 3

\* -------------------------------------------------------------------- C10

\* C10: whenever generate() on a non-empty AST finishes without the return
\* instruction, the diagnostic list is non-empty; an empty diagnostic list
\* for a non-empty AST comes with instructions that end in a return.
C10_NoSilentFailure ==
    (pc = "done" /\ AstLen > 0 /\ errors = <<>>) =>
       /\ instructions # <<>>
       /\ Last(instructions).op = "Return"

\* --------------------------------------------------------------------- C3

\* C3 as claimed: a diagnostic aborts only the branch that produced it, so at
\* the end of a pass that recorded a diagnostic every node in expression
\* position (later members of an enclosing block, the other operand of a
\* binary operation) has still been lowered.
C3_LocallyRecoverable ==
    (pc = "done" /\ errors # <<>>) => ExprNodes \subseteq Range(lowered)

C3_State ==
    /\ Len(errors) <= 1
    /\ errors # <<>> => NoReturnIn(instructions)
    /\ (pc = "done" /\ errors # <<>>) => ret = None

C3_Step ==
    SamePass =>
       /\ IsPrefix(errors, errors')
       /\ IsPrefix(instructions, instructions')
       /\ errors' # errors =>
             /\ instructions' = instructions
             /\ stack' = Pop(stack)
             /\ ret' = None
       /\ errors # <<>> =>
             /\ errors' = errors
             /\ instructions' = instructions
             /\ lowered' = lowered
             /\ register_count' = register_count
             /\ stack # <<>> => (stack' = Pop(stack) /\ ret' = None)

\* C3 as amended: a diagnostic ends the lowering of the whole pass. The call
\* that records it and every enclosing call return no register in turn, so
\* after it no node is lowered, no instruction is appended and no further
\* diagnostic is recorded (a pass records at most one); the instructions and
\* the diagnostic list collected before it are kept, and the final return is
\* withheld.
C3_DiagnosticEndsPass == [] C3_State /\ [][C3_Step]_vars

\* A finished pass with its one diagnostic, instructions emitted before it,
\* and a node in expression position that was never lowered.
C3_Witness ==
    /\ pc = "done"
    /\ Len(errors) = 1
    /\ instructions # <<>>
    /\ ~(ExprNodes \subseteq Range(lowered))

\* --------------------------------------------------------------------- C4

\* C4 as claimed: an unsupported node kind anywhere in the AST (in expression
\* position) has, at the end of the pass, exactly one diagnostic with its id.
C4_AnywhereOneDiagnostic ==
    pc = "done" =>
       \A n \in ExprNodes : Unsupported(n) => Cardinality(DiagnosticsOf(n)) = 1

C4_State ==
    \A n \in Started : Unsupported(n) => Cardinality(DiagnosticsOf(n)) = 1

C4_Step ==
    /\ (stack # <<>> /\ Top.at = "entry" /\ Unsupported(Top.node_id)) =>
          /\ Len(errors') = Len(errors) + 1
          /\ IsPrefix(errors, errors')
          /\ Last(errors').node_id = Top.node_id
          /\ Last(errors').severity = "Error"
          /\ instructions' = instructions
          /\ stack' = Pop(stack)
          /\ ret' = None
    /\ (stack # <<>> /\ Top.at # "entry" /\ ~IsSome(ret)) =>
          /\ stack' = Pop(stack)
          /\ ret' = None
          /\ errors' = errors
          /\ instructions' = instructions

\* C4 as amended: an unsupported node kind that the pass reaches (that
\* generate_node is called on) yields exactly one diagnostic whose node id is
\* that node's id, makes its immediate parent expression fail to produce a
\* register, and leaves the diagnostic list collected before it unchanged as
\* a prefix of the new one.
C4_ReachedUnsupported == [] C4_State /\ [][C4_Step]_vars

\* A finished pass whose diagnostic names an unsupported node below the top
\* level, reached after instructions were emitted.
C4_Witness ==
    /\ pc = "done"
    /\ Len(errors) = 1
    /\ Unsupported(errors[1].node_id)
    /\ errors[1].node_id # AstLen - 1
    /\ errors[1].node_id \in Range(lowered)
    /\ ret = None
    /\ Len(instructions) = 3

\* --------------------------------------------------------------------- C9

\* Whether the call on lowered[i] has got past its entry.
HasStarted(i) == i < Len(lowered) \/ stack = <<>> \/ Top.at # "entry"

C9_State ==
    /\ \A i \in 1..Len(lowered) :
          (KindOf(lowered[i]) = "BinaryOp" /\ HasStarted(i)) =>
             /\ i < Len(lowered)
             /\ lowered[i + 1] = get_node(lowered[i]).lhs
             /\ \A k \in 1..Len(lowered) :
                   lowered[k] = get_node(lowered[i]).rhs => k > i + 1
    /\ \A d \in 1..Len(stack) :
          /\ stack[d].at = "rhs" => IsSome(stack[d].l)
          /\ (stack[d].at \in {"lhs", "rhs"} /\ d < Len(stack)) =>
                stack[d + 1].node_id = IF stack[d].at = "lhs"
                                       THEN get_node(stack[d].node_id).lhs
                                       ELSE get_node(stack[d].node_id).rhs

C9_Step ==
    SamePass =>
       /\ IsPrefix(instructions, instructions')
       /\ (stack # <<>> /\ Top.at = "entry" /\ TopNode.kind = "BinaryOp") =>
             /\ Len(stack') = Len(stack) + 1
             /\ Last(stack').node_id = TopNode.lhs
             /\ lowered' = Append(lowered, TopNode.lhs)
             /\ instructions' = instructions
             /\ errors' = errors
       /\ (stack # <<>> /\ Top.at = "lhs") =>
             IF IsSome(ret)
             THEN /\ Len(stack') = Len(stack) + 1
                  /\ Last(stack').node_id = TopNode.rhs
                  /\ stack'[Len(stack)].l = ret
                  /\ lowered' = Append(lowered, TopNode.rhs)
                  /\ instructions' = instructions
                  /\ errors' = errors
             ELSE /\ stack' = Pop(stack)
                  /\ ret' = None
                  /\ lowered' = lowered
                  /\ instructions' = instructions
                  /\ errors' = errors
       /\ (stack # <<>> /\ Top.at = "rhs") =>
             /\ stack' = Pop(stack)
             /\ lowered' = lowered
             /\ register_count' = register_count
             /\ IF ~IsSome(ret)
                THEN ret' = None /\ instructions' = instructions /\ errors' = errors
                ELSE IF KindOf(TopNode.op) \in {"Plus", "Multiply"}
                THEN /\ instructions' =
                           Append(instructions,
                                  [op |-> "BinaryOp", lhs_dst |-> Unwrap(Top.l),
                                   operator |-> IF KindOf(TopNode.op) = "Plus"
                                                THEN "Math::Plus" ELSE "Math::Multiply",
                                   rhs |-> Unwrap(ret)])
                     /\ ret' = Top.l
                     /\ errors' = errors
                ELSE /\ instructions' = instructions
                     /\ ret' = None
                     /\ Len(errors') = Len(errors) + 1
                     /\ Last(errors').node_id = TopNode.op
       /\ (Len(instructions') > Len(instructions) /\ Last(instructions').op = "BinaryOp") =>
             (stack # <<>> /\ Top.at = "rhs" /\ IsSome(ret))
       /\ (Len(errors') > Len(errors) /\ Last(errors').message[1] = "unrecognized operator") =>
             (stack # <<>> /\ Top.at = "rhs" /\ IsSome(ret))

C9_RhsAlwaysLowered ==
    pc = "done" =>
       \A n \in Range(lowered) :
           KindOf(n) = "BinaryOp" => get_node(n).rhs \in Range(lowered)

\* C9 as claimed: a binary operation lowers its left operand first and its
\* right operand afterwards, the right operand in every case; the operator
\* node is resolved only after both operands; on success exactly one binary-op
\* instruction follows the operands' instructions, with lhs_dst the left
\* register and rhs the right register, and the value of the expression is
\* the left register, no register being allocated for the result.
C9_NoShortCircuit == [] (C9_State /\ C9_RhsAlwaysLowered) /\ [][C9_Step]_vars

\* C9 as amended: the same, except that the right operand is lowered if and
\* only if the left operand yielded a register: a left operand that yields
\* none ends the binary operation at once, with no register and without
\* lowering the right operand.
C9_LeftThenRight == [] C9_State /\ [][C9_Step]_vars

\* The outer binary-op of a nested operation has just been appended: its
\* left register is 0 and its right register is 2.
C9_Witness ==
    /\ pc = "lowering"
    /\ stack = <<>>
    /\ ret = Some(0)
    /\ Len(instructions) = 7
    /\ instructions[3].op = "BinaryOp"
    /\ instructions[6].op = "BinaryOp"
    /\ instructions[7].op = "BinaryOp"
    /\ instructions[7].lhs_dst = 0
    /\ instructions[7].rhs = 2

====
